---- MODULE Spec2Model ----
(***************************************************************************)
(* Model of midnight2: the identifier allocators (core/src/identifier.rs), *)
(* the GPU frame pipeline and presentation loop (core/src/render.rs), the  *)
(* simulation loop (core/src/sim.rs) and the runner (runner/src/main.rs).  *)
(*                                                                         *)
(* SpecId   : threads calling GlobalId::allocate / ThreadLocalId::allocate *)
(* Spec     : the runner, the two loops and the GPU queue                  *)
(***************************************************************************)
EXTENDS Integers, Sequences, FiniteSets, TLC

\* ------------------------------------------------------------------ bounds
\* Width in bits of the modelled usize counters.
W == 2
\* Number of threads calling the allocators.
NThreads == 2
\* Total number of allocate calls begun, over all threads.
MaxCalls == 5

RECURSIVE Pow2(_)
Pow2(n) == IF n = 0 THEN 1 ELSE 2 * Pow2(n - 1)

\* usize::MAX at width W
MaxVal == Pow2(W) - 1

Threads == 1..NThreads

\* ---------------------------------------------------------------- Option<T>
None == [some |-> FALSE, val |-> 0]
Some(v) == [some |-> TRUE, val |-> v]

VARIABLES
  globalCtr,   \* ALLOCATED_GLOBAL_ID
  localCtr,    \* ALLOCATED_THREAD_ID, one instance per thread
  ipc,         \* per thread: position inside allocate
  prev,        \* per thread: fetch_update's local `prev`
  calls,       \* number of allocate calls begun
  gBefore,     \* per thread: number of global returns seen when its call began
  gRet,        \* global allocations in order of return: [thr, res, before]
  lRet         \* per thread: results of its ThreadLocalId::allocate calls

idvars == <<globalCtr, localCtr, ipc, prev, calls, gBefore, gRet, lRet>>

\* ------------------------------------------------------------ identifier.rs
\* usize::checked_add(1) at width W, wrapping variant for comparison
wrapping_add(val) == Some((val + 1) % Pow2(W))

checked_add(val) == IF val + 1 > MaxVal THEN None ELSE Some(val + 1)

\* compare_exchange_weak(prev, next) succeeds only if the cell still holds prev
\* (it may also fail spuriously; see GlobalCas/LocalCas).
BlindStore(cur, expected) == TRUE

CompareExchangeOk(cur, expected) == cur = expected

\* The static the thread_local! closure hands to `with`: the calling thread's
\* own instance.
SharedStatic(t) == 1

ThreadInstance(t) == t

IdInit ==
  /\ globalCtr = 0
  /\ localCtr = [t \in Threads |-> 0]
  /\ ipc = [t \in Threads |-> "idle"]
  /\ prev = [t \in Threads |-> 0]
  /\ calls = 0
  /\ gBefore = [t \in Threads |-> 0]
  /\ gRet = <<>>
  /\ lRet = [t \in Threads |-> <<>>]

\* allocate returns r to thread t; fetch_update's local goes out of scope
GReturn(t, r) ==
  /\ gRet' = Append(gRet, [thr |-> t, res |-> r, before |-> gBefore[t]])
  /\ ipc' = [ipc EXCEPT ![t] = "idle"]
  /\ prev' = [prev EXCEPT ![t] = 0]
  /\ gBefore' = [gBefore EXCEPT ![t] = 0]

LReturn(t, r) ==
  /\ lRet' = [lRet EXCEPT ![t] = Append(@, r)]
  /\ ipc' = [ipc EXCEPT ![t] = "idle"]
  /\ prev' = [prev EXCEPT ![t] = 0]

\* GlobalId::allocate is entered
GlobalBegin(t) ==
  /\ ipc[t] = "idle"
  /\ calls < MaxCalls
  /\ calls' = calls + 1
  /\ ipc' = [ipc EXCEPT ![t] = "g_load"]
  /\ gBefore' = [gBefore EXCEPT ![t] = Len(gRet)]
  /\ UNCHANGED <<globalCtr, localCtr, prev, gRet, lRet>>

\* fetch_update: prev = load(); f(prev) = None returns Err(prev) -> .ok() = None
GlobalLoad(t) ==
  /\ ipc[t] = "g_load"
  /\ IF checked_add(globalCtr).some
       THEN /\ prev' = [prev EXCEPT ![t] = globalCtr]
            /\ ipc' = [ipc EXCEPT ![t] = "g_cas"]
            /\ UNCHANGED <<gRet, gBefore>>
       ELSE GReturn(t, None)
  /\ UNCHANGED <<globalCtr, localCtr, calls, lRet>>

\* fetch_update: compare_exchange_weak(prev, next); Ok(prev) maps to
\* Some(GlobalId(prev)); Err(cur) reloads prev and re-evaluates f.
GlobalCas(t) ==
  /\ ipc[t] = "g_cas"
  /\ \/ /\ CompareExchangeOk(globalCtr, prev[t])
        /\ globalCtr' = checked_add(prev[t]).val
        /\ GReturn(t, Some(prev[t]))
     \/ /\ IF checked_add(globalCtr).some
             THEN /\ prev' = [prev EXCEPT ![t] = globalCtr]
                  /\ UNCHANGED <<ipc, gRet, gBefore>>
             ELSE GReturn(t, None)
        /\ UNCHANGED globalCtr
  /\ UNCHANGED <<localCtr, calls, lRet>>

\* ThreadLocalId::allocate is entered
LocalBegin(t) ==
  /\ ipc[t] = "idle"
  /\ calls < MaxCalls
  /\ calls' = calls + 1
  /\ ipc' = [ipc EXCEPT ![t] = "l_load"]
  /\ UNCHANGED <<globalCtr, localCtr, prev, gBefore, gRet, lRet>>

LocalLoad(t) ==
  /\ ipc[t] = "l_load"
  /\ IF checked_add(localCtr[ThreadInstance(t)]).some
       THEN /\ prev' = [prev EXCEPT ![t] = localCtr[ThreadInstance(t)]]
            /\ ipc' = [ipc EXCEPT ![t] = "l_cas"]
            /\ UNCHANGED lRet
       ELSE LReturn(t, None)
  /\ UNCHANGED <<globalCtr, localCtr, calls, gBefore, gRet>>

LocalCas(t) ==
  /\ ipc[t] = "l_cas"
  /\ \/ /\ CompareExchangeOk(localCtr[ThreadInstance(t)], prev[t])
        /\ localCtr' = [localCtr EXCEPT ![ThreadInstance(t)] = checked_add(prev[t]).val]
        /\ LReturn(t, Some(prev[t]))
     \/ /\ IF checked_add(localCtr[ThreadInstance(t)]).some
             THEN /\ prev' = [prev EXCEPT ![t] = localCtr[ThreadInstance(t)]]
                  /\ UNCHANGED <<ipc, lRet>>
             ELSE LReturn(t, None)
        /\ UNCHANGED localCtr
  /\ UNCHANGED <<globalCtr, calls, gBefore, gRet>>

IdNext ==
  \E t \in Threads :
    \/ GlobalBegin(t)
    \/ GlobalLoad(t)
    \/ GlobalCas(t)
    \/ LocalBegin(t)
    \/ LocalLoad(t)
    \/ LocalCas(t)

\* ================================================================ render.rs
\* const MAX_FRAMES_IN_FLIGHT: u32 = 3
MAX_FRAMES_IN_FLIGHT == 3

\* Number of render_loop calls the presentation loop may begin.
MaxFrames == 4
\* Number of iterations of the simulation loop that are counted.
MaxSimIters == 2

Slots == 0..(MAX_FRAMES_IN_FLIGHT - 1)

\* The thread that runs main() is thread 1 of Threads.
MainThread == 1

VARIABLES
  mpc,            \* main thread: position in main / spawn_window / event loop
  window,         \* the winit window: "none", "alive", "dropped"
  renderFlag,     \* render::S_SHUTDOWN
  simFlag,        \* sim::S_SHUTDOWN
  spc,            \* simulation thread: "none", "loop", "done"
  simIters,       \* iterations of the simulation loop that found the flag clear
  game_renderer,  \* the GameRenderer value (render.rs: struct GameRenderer)
  rpc,            \* presentation thread: position in the loop / render_loop / exit
  xi,             \* exit: loop variable i of `for i in 0..MAX_FRAMES_IN_FLIGHT`
  gpuQueue,       \* submissions handed to the queue and not yet retired by the GPU
  fenceObs,       \* per slot: the value the slot's fence currently reports
  framesStarted,  \* number of render_loop calls begun
  framesDone,     \* number of render_loop calls that returned
  slotUse,        \* the slot of each begin_encoding, in order
  exitCalls,      \* number of GameRenderer::exit calls begun
  sigFrames,      \* framesStarted when render::shutdown() stored the flag, -1 before
  reclaimCount,   \* per slot: number of completed wait_and_clear calls
  sinceWait,      \* per slot: submissions since the last wait on its fence returned
  teardownLog,    \* the teardown calls exit has completed, in order
  busyRelease,    \* a command buffer or view was released while still in gpuQueue
  busyDestroy,    \* a slot was destroyed with work in gpuQueue or unreleased lists
  initResult      \* what GameRenderer::init answered to spawn_window, "none" before

rvars == <<mpc, window, renderFlag, simFlag, spc, simIters, game_renderer, rpc, xi,
           gpuQueue, fenceObs, framesStarted, framesDone, slotUse, exitCalls,
           sigFrames, reclaimCount, sinceWait, teardownLog, busyRelease, busyDestroy,
           initResult>>

vars == <<idvars, rvars>>

mainVars == <<mpc, window, renderFlag, simFlag, sigFrames, initResult>>
simVars == <<spc, simIters>>
gpuVars == <<gpuQueue, fenceObs>>
loopVars == <<rpc, xi, framesStarted, framesDone, slotUse, exitCalls>>
slotGhost == <<reclaimCount, sinceWait, busyRelease, busyDestroy>>

\* RenderFrame as GameRenderer::init builds it (render.rs:151-158);
\* res is the state of its encoder and fence.
NewFrame ==
  [res |-> "live", fence_value |-> 0, used_views |-> <<>>,
   used_cmd_bufs |-> <<>>, frames_recorded |-> 0]

NoFrame ==
  [res |-> "none", fence_value |-> 0, used_views |-> <<>>,
   used_cmd_bufs |-> <<>>, frames_recorded |-> 0]

NoRenderer ==
  [instance |-> "none", adapter |-> "none", surface |-> "none", device |-> "none",
   frames_in_flight |-> [s \in Slots |-> NoFrame], frame_index |-> 0]

RenderInit ==
  /\ mpc = "start"
  /\ window = "none"
  /\ renderFlag = FALSE
  /\ simFlag = FALSE
  /\ spc = "none"
  /\ simIters = 0
  /\ game_renderer = NoRenderer
  /\ rpc = "none"
  /\ xi = 0
  /\ gpuQueue = <<>>
  /\ fenceObs = [s \in Slots |-> 0]
  /\ framesStarted = 0
  /\ framesDone = 0
  /\ slotUse = <<>>
  /\ exitCalls = 0
  /\ sigFrames = -1
  /\ reclaimCount = [s \in Slots |-> 0]
  /\ sinceWait = [s \in Slots |-> 0]
  /\ teardownLog = <<>>
  /\ busyRelease = FALSE
  /\ busyDestroy = FALSE
  /\ initResult = "none"

\* The process runs until main returns or the main thread panics.
Alive == mpc \notin {"exited", "panicked"}

\* ------------------------------------------------------------------ main.rs
\* main: logging::init(); ThreadLocalId::allocate().unwrap() on the main thread
MainStart ==
  /\ mpc = "start"
  /\ IF checked_add(localCtr[ThreadInstance(MainThread)]).some
       THEN /\ localCtr' = [localCtr EXCEPT ![ThreadInstance(MainThread)] =
                              checked_add(@).val]
            /\ lRet' = [lRet EXCEPT ![MainThread] =
                          Append(@, Some(localCtr[ThreadInstance(MainThread)]))]
            /\ mpc' = "spawn_world"
       ELSE /\ mpc' = "panicked"
            /\ UNCHANGED <<localCtr, lRet>>
  /\ UNCHANGED <<globalCtr, ipc, prev, calls, gBefore, gRet>>
  /\ UNCHANGED <<window, renderFlag, simFlag, sigFrames, initResult>>
  /\ UNCHANGED <<simVars, game_renderer, gpuVars, loopVars, slotGhost, teardownLog>>

\* spawn_world -> sim::init: the simulation thread is spawned
SpawnWorld ==
  /\ mpc = "spawn_world"
  /\ mpc' = "spawn_window"
  /\ spc' = "loop"
  /\ UNCHANGED <<idvars, window, renderFlag, simFlag, sigFrames, initResult, simIters>>
  /\ UNCHANGED <<game_renderer, gpuVars, loopVars, slotGhost, teardownLog>>

\* What the graphics collaborator can answer during GameRenderer::init.
InitOutcomes ==
  {"ok", "instance_err", "no_adapter", "no_surface_caps", "open_fail", "configure_fail"}

\* How GameRenderer::init is left: Ok(Self), Err(..) by `?` / return Err, or a
\* panic of an unwrap inside it
InitReturn(o) ==
  CASE o = "ok" -> "Ok"
    [] o \in {"instance_err", "no_adapter", "no_surface_caps"} -> "Err"
    [] o \in {"open_fail", "configure_fail"} -> "panic"

\* A variant of init that keeps what it created when it fails
GameRendererInitLeak(o) ==
  IF o = "ok"
    THEN [instance |-> "live", adapter |-> "live", surface |-> "configured",
          device |-> "open",
          frames_in_flight |-> [s \in Slots |-> NewFrame], frame_index |-> 0]
    ELSE [NoRenderer EXCEPT !.instance = "live", !.surface = "unconfigured"]

\* GameRenderer::init: the value built on success. On a failure the locals
\* created so far are dropped as the function is left (`?`, return Err, or an
\* unwinding unwrap); none of destroy_surface / unconfigure / exit is called.
GameRendererInit(o) ==
  CASE o = "ok" ->
         [instance |-> "live", adapter |-> "live", surface |-> "configured",
          device |-> "open",
          frames_in_flight |-> [s \in Slots |-> NewFrame], frame_index |-> 0]
    [] o = "instance_err" -> NoRenderer
    [] o = "no_adapter" ->
         [NoRenderer EXCEPT !.instance = "dropped", !.surface = "dropped"]
    [] o \in {"no_surface_caps", "open_fail"} ->
         [NoRenderer EXCEPT !.instance = "dropped", !.surface = "dropped",
                            !.adapter = "dropped"]
    [] o = "configure_fail" ->
         [NoRenderer EXCEPT !.instance = "dropped", !.surface = "dropped",
                            !.adapter = "dropped", !.device = "dropped"]

\* spawn_window: build the window, render::init(&window).unwrap(). On success the
\* presentation thread is spawned; on any failure the unwrap panics main.
SpawnWindow(o) ==
  /\ mpc = "spawn_window"
  /\ game_renderer' = GameRendererInit(o)
  /\ initResult' = o
  /\ IF o = "ok"
       THEN /\ mpc' = "event_loop"
            /\ window' = "alive"
            /\ rpc' = "loop_top"
       ELSE /\ mpc' = "panicked"
            /\ window' = "dropped"
            /\ UNCHANGED rpc
  /\ UNCHANGED <<idvars, renderFlag, simFlag, sigFrames, simVars, gpuVars>>
  /\ UNCHANGED <<xi, framesStarted, framesDone, slotUse, exitCalls>>
  /\ UNCHANGED <<slotGhost, teardownLog>>

\* event loop: Escape pressed or CloseRequested -> target.exit(); winit then
\* delivers Event::LoopExiting
ExitRequested ==
  /\ mpc = "event_loop"
  /\ mpc' = "loop_exiting"
  /\ UNCHANGED <<idvars, window, renderFlag, simFlag, sigFrames, initResult, simVars>>
  /\ UNCHANGED <<game_renderer, gpuVars, loopVars, slotGhost, teardownLog>>

\* LoopExiting: unsafe { render::shutdown() }
SignalRenderShutdown ==
  /\ mpc = "loop_exiting"
  /\ renderFlag' = TRUE
  /\ sigFrames' = framesStarted
  /\ mpc' = "join_render"
  /\ UNCHANGED <<idvars, window, simFlag, simVars, initResult>>
  /\ UNCHANGED <<game_renderer, gpuVars, loopVars, slotGhost, teardownLog>>

\* LoopExiting: render_thread.take().map(JoinHandle::join); the result is dropped
JoinRender ==
  /\ mpc = "join_render"
  /\ rpc \in {"done", "panicked"}
  /\ mpc' = "signal_sim"
  /\ UNCHANGED <<idvars, window, renderFlag, simFlag, sigFrames, initResult, simVars>>
  /\ UNCHANGED <<game_renderer, gpuVars, loopVars, slotGhost, teardownLog>>

\* LoopExiting: unsafe { sim::shutdown() }
SignalSimShutdown ==
  /\ mpc = "signal_sim"
  /\ simFlag' = TRUE
  /\ mpc' = "run_return"
  /\ UNCHANGED <<idvars, window, renderFlag, sigFrames, initResult, simVars>>
  /\ UNCHANGED <<game_renderer, gpuVars, loopVars, slotGhost, teardownLog>>

\* event_loop.run returns: the closure, and the window it owns, are dropped
RunReturn ==
  /\ mpc = "run_return"
  /\ window' = "dropped"
  /\ mpc' = "join_sim"
  /\ UNCHANGED <<idvars, renderFlag, simFlag, sigFrames, initResult, simVars>>
  /\ UNCHANGED <<game_renderer, gpuVars, loopVars, slotGhost, teardownLog>>

\* main: sim_thread.join().expect(..), then main returns
JoinSim ==
  /\ mpc = "join_sim"
  /\ spc = "done"
  /\ mpc' = "exited"
  /\ UNCHANGED <<idvars, window, renderFlag, simFlag, sigFrames, initResult, simVars>>
  /\ UNCHANGED <<game_renderer, gpuVars, loopVars, slotGhost, teardownLog>>

\* ------------------------------------------------------------------- sim.rs
\* sim::should_shutdown
sim_should_shutdown == simFlag

\* sim::init closure: loop { if should_shutdown() { break; } }
SimLoop ==
  /\ Alive
  /\ spc = "loop"
  /\ IF sim_should_shutdown
       THEN /\ spc' = "done"
            /\ UNCHANGED simIters
       ELSE /\ simIters < MaxSimIters
            /\ simIters' = simIters + 1
            /\ UNCHANGED spc
  /\ UNCHANGED <<idvars, mainVars>>
  /\ UNCHANGED <<game_renderer, gpuVars, loopVars, slotGhost, teardownLog>>

\* ---------------------------------------------------------------- render.rs
\* render::should_shutdown, and the same read of the other module's flag
should_shutdown_other == simFlag

should_shutdown == renderFlag

\* The slot render_loop and exit select: frames_in_flight[frame_index]
CurSlot == game_renderer.frame_index

CurFrame == game_renderer.frames_in_flight[CurSlot]

\* queue.submit(bufs, Some((&mut frame.fence, frame.fence_value))): the GPU
\* signals the fence with that value when the submission retires.
\* frame is the render_loop call that recorded the batch, 0 for an empty batch.
Submission(s, frame) ==
  [slot |-> s, value |-> game_renderer.frames_in_flight[s].fence_value,
   frame |-> frame]

\* Submissions of slot s the GPU has not retired
InFlight(s) == {i \in DOMAIN gpuQueue : gpuQueue[i].slot = s}

\* Frames whose command buffers are still executing
BusyFrames == {gpuQueue[i].frame : i \in DOMAIN gpuQueue}

SeqToSet(q) == {q[i] : i \in DOMAIN q}

\* device.wait(&self.fence, self.fence_value, !0) returns once the fence has
\* reached the value
FenceReached(s) == fenceObs[s] >= game_renderer.frames_in_flight[s].fence_value

\* RenderFrame::wait_and_clear, after the wait: reset_all(used_cmd_bufs.drain(..)),
\* destroy every used view, frames_recorded = 0
wait_and_clear(f) ==
  [f EXCEPT !.used_cmd_bufs = <<>>, !.used_views = <<>>, !.frames_recorded = 0]

\* Unwinding out of the thread closure drops the GameRenderer it owns
DropRenderer(g) ==
  [instance |-> IF g.instance = "live" THEN "dropped" ELSE g.instance,
   adapter |-> IF g.adapter = "live" THEN "dropped" ELSE g.adapter,
   surface |-> IF g.surface \in {"configured", "unconfigured"}
                 THEN "dropped" ELSE g.surface,
   device |-> IF g.device = "open" THEN "dropped" ELSE g.device,
   frames_in_flight |->
     [s \in Slots |->
        [g.frames_in_flight[s] EXCEPT
           !.res = IF @ = "live" THEN "dropped" ELSE @]],
   frame_index |-> g.frame_index]

\* The order of the calls of GameRenderer::exit, as positions of the thread;
\* the last entry is where the closure continues (`break`).
ExitOrderSwapped ==
  <<"x_submit", "x_wait", "x_destroy", "x_device_exit", "x_unconfigure",
    "x_destroy_surface", "x_drop_adapter", "done">>

ExitOrderNoBreak ==
  <<"x_submit", "x_wait", "x_destroy", "x_unconfigure", "x_device_exit",
    "x_destroy_surface", "x_drop_adapter", "loop_top">>

ExitOrder ==
  <<"x_submit", "x_wait", "x_destroy", "x_unconfigure", "x_device_exit",
    "x_destroy_surface", "x_drop_adapter", "done">>

ExitAfter(p) ==
  ExitOrder[(CHOOSE i \in 1..(Len(ExitOrder) - 1) : ExitOrder[i] = p) + 1]

\* render::init closure: loop { if should_shutdown() { game_renderer.exit();
\* break; } render_loop(&mut game_renderer); } -- the flag check
LoopCheck ==
  /\ Alive
  /\ rpc = "loop_top"
  /\ IF should_shutdown
       THEN /\ rpc' = ExitOrder[1]
            /\ exitCalls' = exitCalls + 1
            /\ UNCHANGED framesStarted
       ELSE /\ framesStarted < MaxFrames
            /\ rpc' = "rl_enter"
            /\ UNCHANGED exitCalls
  /\ UNCHANGED <<idvars, mainVars, simVars, game_renderer, gpuVars>>
  /\ UNCHANGED <<xi, framesStarted, framesDone, slotUse, slotGhost, teardownLog>>

\* render_loop is entered: it borrows device, queue, surface and selects
\* frames_in_flight[frame_index]
RenderEnter ==
  /\ Alive
  /\ rpc = "rl_enter"
  /\ framesStarted' = framesStarted + 1
  /\ rpc' = "rl_acquire"
  /\ UNCHANGED <<idvars, mainVars, simVars, game_renderer, gpuVars>>
  /\ UNCHANGED <<xi, framesDone, slotUse, exitCalls, slotGhost, teardownLog>>

\* render_loop: surface.acquire_texture(None).unwrap().unwrap()
RenderAcquire ==
  /\ Alive
  /\ rpc = "rl_acquire"
  /\ rpc' = "rl_record"
  /\ UNCHANGED <<idvars, mainVars, simVars, game_renderer, gpuVars>>
  /\ UNCHANGED <<xi, framesStarted, framesDone, slotUse, exitCalls>>
  /\ UNCHANGED <<slotGhost, teardownLog>>

\* render_loop: begin_encoding on the selected slot's encoder, barrier, view,
\* render pass, barrier, end_encoding
RenderRecord ==
  /\ Alive
  /\ rpc = "rl_record"
  /\ slotUse' = Append(slotUse, CurSlot)
  /\ rpc' = "rl_submit"
  /\ UNCHANGED <<idvars, mainVars, simVars, game_renderer, gpuVars>>
  /\ UNCHANGED <<xi, framesStarted, framesDone, exitCalls>>
  /\ UNCHANGED <<slotGhost, teardownLog>>

\* render_loop: queue.submit(&[&cmd_buf], Some((&mut frame.fence, frame.fence_value)))
RenderSubmit ==
  /\ Alive
  /\ rpc = "rl_submit"
  /\ gpuQueue' = Append(gpuQueue, Submission(CurSlot, framesStarted))
  /\ sinceWait' = [sinceWait EXCEPT ![CurSlot] = @ + 1]
  /\ rpc' = "rl_present"
  /\ UNCHANGED <<idvars, mainVars, simVars, game_renderer, fenceObs>>
  /\ UNCHANGED <<xi, framesStarted, framesDone, slotUse, exitCalls>>
  /\ UNCHANGED <<reclaimCount, busyRelease, busyDestroy, teardownLog>>

\* render_loop: queue.present, used_cmd_bufs.push(cmd_buf),
\* used_views.push(surface_tex_view); the function returns
RenderPresent ==
  /\ Alive
  /\ rpc = "rl_present"
  /\ game_renderer' =
       [game_renderer EXCEPT
          !.frames_in_flight[CurSlot].used_cmd_bufs = Append(@, framesStarted),
          !.frames_in_flight[CurSlot].used_views = Append(@, framesStarted)]
  /\ framesDone' = framesDone + 1
  /\ rpc' = "loop_top"
  /\ UNCHANGED <<idvars, mainVars, simVars, gpuVars>>
  /\ UNCHANGED <<xi, framesStarted, slotUse, exitCalls, slotGhost, teardownLog>>

\* A graphics call answers Err and its unwrap() panics: the thread unwinds
\* and ends without running (the rest of) exit.
Fallible == {"rl_acquire", "rl_record", "rl_submit", "rl_present", "x_submit", "x_wait"}

HalPanic ==
  /\ Alive
  /\ rpc \in Fallible
  /\ rpc' = "panicked"
  /\ game_renderer' = DropRenderer(game_renderer)
  /\ UNCHANGED <<idvars, mainVars, simVars, gpuVars>>
  /\ UNCHANGED <<xi, framesStarted, framesDone, slotUse, exitCalls>>
  /\ UNCHANGED <<slotGhost, teardownLog>>

\* The GPU retires the oldest submission and signals its fence
GpuRetire ==
  /\ Alive
  /\ game_renderer.device = "open"
  /\ gpuQueue # <<>>
  /\ fenceObs' = [fenceObs EXCEPT ![Head(gpuQueue).slot] = Head(gpuQueue).value]
  /\ gpuQueue' = Tail(gpuQueue)
  /\ UNCHANGED <<idvars, mainVars, simVars, game_renderer>>
  /\ UNCHANGED <<loopVars, slotGhost, teardownLog>>

\* exit: queue.submit(&[], Some((&mut frame.fence, frame.fence_value)))
ExitSubmit ==
  /\ Alive
  /\ rpc = "x_submit"
  /\ gpuQueue' = Append(gpuQueue, Submission(CurSlot, 0))
  /\ sinceWait' = [sinceWait EXCEPT ![CurSlot] = @ + 1]
  /\ rpc' = ExitAfter("x_submit")
  /\ UNCHANGED <<idvars, mainVars, simVars, game_renderer, fenceObs>>
  /\ UNCHANGED <<xi, framesStarted, framesDone, slotUse, exitCalls>>
  /\ UNCHANGED <<reclaimCount, busyRelease, busyDestroy, teardownLog>>

\* exit: frame.wait_and_clear(&self.device)
ExitWaitAndClear ==
  /\ Alive
  /\ rpc = "x_wait"
  /\ FenceReached(CurSlot)
  /\ busyRelease' =
       (busyRelease \/
        (SeqToSet(CurFrame.used_cmd_bufs) \cup SeqToSet(CurFrame.used_views))
          \cap BusyFrames # {})
  /\ game_renderer' =
       [game_renderer EXCEPT !.frames_in_flight[CurSlot] = wait_and_clear(@)]
  /\ reclaimCount' = [reclaimCount EXCEPT ![CurSlot] = @ + 1]
  /\ sinceWait' = [sinceWait EXCEPT ![CurSlot] = 0]
  /\ teardownLog' = Append(teardownLog, "drain")
  /\ rpc' = ExitAfter("x_wait")
  /\ UNCHANGED <<idvars, mainVars, simVars, gpuVars>>
  /\ UNCHANGED <<xi, framesStarted, framesDone, slotUse, exitCalls, busyDestroy>>

\* exit: for i in 0..MAX_FRAMES_IN_FLIGHT { frames_in_flight[i].take().unwrap()
\* .destroy(&self.device) } -- one iteration
ExitDestroyFrame ==
  /\ Alive
  /\ rpc = "x_destroy"
  /\ game_renderer' = [game_renderer EXCEPT !.frames_in_flight[xi].res = "destroyed"]
  /\ busyDestroy' =
       (busyDestroy \/ InFlight(xi) # {}
          \/ game_renderer.frames_in_flight[xi].used_cmd_bufs # <<>>
          \/ game_renderer.frames_in_flight[xi].used_views # <<>>)
  /\ teardownLog' = Append(teardownLog, "destroy_slot")
  /\ xi' = xi + 1
  /\ rpc' = IF xi + 1 < MAX_FRAMES_IN_FLIGHT THEN rpc ELSE ExitAfter("x_destroy")
  /\ UNCHANGED <<idvars, mainVars, simVars, gpuVars>>
  /\ UNCHANGED <<framesStarted, framesDone, slotUse, exitCalls>>
  /\ UNCHANGED <<reclaimCount, sinceWait, busyRelease>>

\* exit: self.surface.unconfigure(&self.device)
ExitUnconfigure ==
  /\ Alive
  /\ rpc = "x_unconfigure"
  /\ game_renderer' = [game_renderer EXCEPT !.surface = "unconfigured"]
  /\ teardownLog' = Append(teardownLog, "unconfigure")
  /\ rpc' = ExitAfter("x_unconfigure")
  /\ UNCHANGED <<idvars, mainVars, simVars, gpuVars>>
  /\ UNCHANGED <<xi, framesStarted, framesDone, slotUse, exitCalls, slotGhost>>

\* exit: self.device.exit(self.queue)
ExitDevice ==
  /\ Alive
  /\ rpc = "x_device_exit"
  /\ game_renderer' = [game_renderer EXCEPT !.device = "exited"]
  /\ teardownLog' = Append(teardownLog, "device_exit")
  /\ rpc' = ExitAfter("x_device_exit")
  /\ UNCHANGED <<idvars, mainVars, simVars, gpuVars>>
  /\ UNCHANGED <<xi, framesStarted, framesDone, slotUse, exitCalls, slotGhost>>

\* exit: self.instance.destroy_surface(self.surface)
ExitDestroySurface ==
  /\ Alive
  /\ rpc = "x_destroy_surface"
  /\ game_renderer' = [game_renderer EXCEPT !.surface = "destroyed"]
  /\ teardownLog' = Append(teardownLog, "destroy_surface")
  /\ rpc' = ExitAfter("x_destroy_surface")
  /\ UNCHANGED <<idvars, mainVars, simVars, gpuVars>>
  /\ UNCHANGED <<xi, framesStarted, framesDone, slotUse, exitCalls, slotGhost>>

\* exit: drop(self.adapter); exit returns and drops what is left of self
\* (the instance); the closure breaks out of its loop
ExitDropAdapter ==
  /\ Alive
  /\ rpc = "x_drop_adapter"
  /\ game_renderer' = [game_renderer EXCEPT !.adapter = "dropped",
                                            !.instance = "dropped"]
  /\ teardownLog' = Append(teardownLog, "drop_adapter")
  /\ rpc' = ExitAfter("x_drop_adapter")
  /\ UNCHANGED <<idvars, mainVars, simVars, gpuVars>>
  /\ UNCHANGED <<xi, framesStarted, framesDone, slotUse, exitCalls, slotGhost>>

Init == IdInit /\ RenderInit

Next ==
  \/ MainStart
  \/ SpawnWorld
  \/ \E o \in InitOutcomes : SpawnWindow(o)
  \/ ExitRequested
  \/ SignalRenderShutdown
  \/ JoinRender
  \/ SignalSimShutdown
  \/ RunReturn
  \/ JoinSim
  \/ SimLoop
  \/ LoopCheck
  \/ RenderEnter
  \/ RenderAcquire
  \/ RenderRecord
  \/ RenderSubmit
  \/ RenderPresent
  \/ HalPanic
  \/ GpuRetire
  \/ ExitSubmit
  \/ ExitWaitAndClear
  \/ ExitDestroyFrame
  \/ ExitUnconfigure
  \/ ExitDevice
  \/ ExitDestroySurface
  \/ ExitDropAdapter

\* The runner with its two loops and the GPU queue.
Spec == Init /\ [][Next]_vars

\* The steps of the main thread once the event loop delivers LoopExiting, and
\* before the event loop runs
MainStep ==
  \/ MainStart
  \/ SpawnWorld
  \/ SignalRenderShutdown
  \/ JoinRender
  \/ SignalSimShutdown
  \/ RunReturn
  \/ JoinSim

\* The steps of the presentation thread in which its graphics calls return
RenderStep ==
  \/ LoopCheck
  \/ RenderEnter
  \/ RenderAcquire
  \/ RenderRecord
  \/ RenderSubmit
  \/ RenderPresent
  \/ ExitSubmit
  \/ ExitWaitAndClear
  \/ ExitDestroyFrame
  \/ ExitUnconfigure
  \/ ExitDevice
  \/ ExitDestroySurface
  \/ ExitDropAdapter

\* The runner under a fair scheduler: every thread that can take a step
\* eventually takes one, the GPU retires what it was given, and a graphics call
\* that can return does return (with a value or with an error).
FairSpec ==
  /\ Spec
  /\ WF_vars(MainStep)
  /\ WF_vars(SimLoop)
  /\ WF_vars(RenderStep \/ HalPanic)
  /\ WF_vars(GpuRetire)

\* render::shutdown() and sim::shutdown() are public: a caller other than the
\* LoopExiting handler may signal either loop, in either order, while both run.
CallRenderShutdown ==
  /\ mpc = "event_loop"
  /\ ~renderFlag
  /\ renderFlag' = TRUE
  /\ sigFrames' = framesStarted
  /\ UNCHANGED <<idvars, mpc, window, simFlag, simVars, initResult>>
  /\ UNCHANGED <<game_renderer, gpuVars, loopVars, slotGhost, teardownLog>>

CallSimShutdown ==
  /\ mpc = "event_loop"
  /\ ~simFlag
  /\ simFlag' = TRUE
  /\ UNCHANGED <<idvars, mpc, window, renderFlag, sigFrames, simVars, initResult>>
  /\ UNCHANGED <<game_renderer, gpuVars, loopVars, slotGhost, teardownLog>>

SupNext ==
  \/ MainStart
  \/ SpawnWorld
  \/ \E o \in InitOutcomes : SpawnWindow(o)
  \/ CallRenderShutdown
  \/ CallSimShutdown
  \/ SimLoop
  \/ RenderStep
  \/ HalPanic
  \/ GpuRetire

\* The two loops with their shutdown signals given in any order.
SpecSup == Init /\ [][SupNext]_vars

\* The threads calling the allocators, with the runner not started.
SpecId == Init /\ [][IdNext /\ UNCHANGED rvars]_vars


\* =================================================================== claims
\* ------------------------------------------------------------- identifier.rs
GSome == {i \in DOMAIN gRet : gRet[i].res.some}

\* C1: under every interleaving of the load / checked_add / compare-exchange
\* steps, no two successful GlobalId::allocate calls return the same value.
C1_GlobalIdsDistinct ==
  \A i, j \in GSome : i # j => gRet[i].res.val # gRet[j].res.val

\* Two threads whose calls overlapped in time both obtained an id.
C1_Witness ==
  \E i, j \in GSome :
    /\ i < j
    /\ gRet[i].thr # gRet[j].thr
    /\ gRet[j].before < i

\* A step in which a call on the global counter returns
GReturns == Len(gRet') = Len(gRet) + 1

\* A step in which thread t's call on its own counter returns
LReturns(t) == Len(lRet'[t]) = Len(lRet[t]) + 1

NoSomeAfterNone(q) ==
  \A i, j \in DOMAIN q : (i < j /\ ~q[i].some) => ~q[j].some

C2_Step ==
  /\ globalCtr' >= globalCtr
  /\ GReturns =>
       /\ gRet'[Len(gRet')].res.some <=> (globalCtr # MaxVal)
       /\ ~gRet'[Len(gRet')].res.some => globalCtr' = globalCtr
  /\ \A t \in Threads :
       /\ localCtr'[t] >= localCtr[t]
       /\ LReturns(t) =>
            /\ lRet'[t][Len(lRet'[t])].some <=> (localCtr[t] # MaxVal)
            /\ ~lRet'[t][Len(lRet'[t])].some => localCtr'[t] = localCtr[t]

\* C2: with W-bit counters, allocate returns none exactly when the counter it
\* reads holds the maximum value; a failed call leaves the counter unchanged,
\* the counter never decreases (no wrap), and after a none every later return
\* on the same counter is none.
C2_ExhaustionPermanent ==
  /\ [](NoSomeAfterNone([i \in DOMAIN gRet |-> gRet[i].res]))
  /\ [](\A t \in Threads : NoSomeAfterNone(lRet[t]))
  /\ [][C2_Step]_vars

\* The global counter reached its maximum after MaxVal successful calls and
\* then refused two calls.
C2_Witness ==
  /\ globalCtr = MaxVal
  /\ Cardinality(GSome) = MaxVal
  /\ \E i, j \in DOMAIN gRet : i < j /\ ~gRet[i].res.some /\ ~gRet[j].res.some

\* A thread's own counter reached its maximum and refused a call.
C2_LocalExhausted ==
  \E t \in Threads :
    /\ localCtr[t] = MaxVal
    /\ \E i \in DOMAIN lRet[t] : ~lRet[t][i].some

\* C3: a GlobalId::allocate call that returned before another one began
\* returned the strictly smaller value, whatever threads made the calls.
C3_GlobalIdsOrdered ==
  \A j \in GSome : \A i \in GSome :
    i <= gRet[j].before => gRet[i].res.val < gRet[j].res.val

\* A call on one thread returned before a call on another thread began.
C3_Witness ==
  \E j \in GSome : \E i \in GSome :
    i <= gRet[j].before /\ gRet[i].thr # gRet[j].thr

C4_Step ==
  \A t \in Threads :
    localCtr'[t] # localCtr[t] =>
      /\ ipc[t] = "l_cas"
      /\ globalCtr' = globalCtr
      /\ \A u \in Threads \ {t} : localCtr'[u] = localCtr[u]

C4_Increasing ==
  \A t \in Threads : \A i, j \in DOMAIN lRet[t] :
    (i < j /\ lRet[t][i].some /\ lRet[t][j].some)
      => lRet[t][i].val < lRet[t][j].val

\* C4: the values one thread gets from ThreadLocalId::allocate are strictly
\* increasing (so distinct) under every interleaving, and an allocation changes
\* only the calling thread's counter: not another thread's, not the global one.
C4_ThreadLocalIsolated == []C4_Increasing /\ [][C4_Step]_vars

\* Two threads hold the same numeric value, one of them after two allocations,
\* with global allocations made in between.
C4_Witness ==
  \E t, u \in Threads :
    /\ t # u
    /\ Len(lRet[t]) >= 2
    /\ \E i \in DOMAIN lRet[t] : \E k \in DOMAIN lRet[u] :
         lRet[t][i].some /\ lRet[u][k].some /\ lRet[t][i].val = lRet[u][k].val
    /\ GSome # {}

\* ---------------------------------------------------------------- render.rs
\* C5: every render_loop call advances frame_index to (frame_index + 1) mod N,
\* so the k-th call records on slot (k - 1) mod N: 0,1,2,0,1,2,0 for N = 3.
C5_SlotRotation ==
  /\ \A k \in DOMAIN slotUse : slotUse[k] = (k - 1) % MAX_FRAMES_IN_FLIGHT
  /\ rpc = "loop_top" =>
       game_renderer.frame_index = framesDone % MAX_FRAMES_IN_FLIGHT

\* C6: when render_loop has begun recording on a slot, every earlier submission
\* on that slot has been followed by a wait on the slot's fence, and none of
\* them is still in flight on the GPU.
C6_RecordAfterWait ==
  rpc = "rl_submit" => (sinceWait[CurSlot] = 0 /\ InFlight(CurSlot) = {})

\* C7: after N render_loop calls slot 0 has been reclaimed at least once, and a
\* slot that has been reclaimed had its fence at its expected value.
C7_ReclaimedAfterN ==
  /\ framesDone >= MAX_FRAMES_IN_FLIGHT => reclaimCount[0] >= 1
  /\ \A s \in Slots : reclaimCount[s] >= 1 => FenceReached(s)

\* The teardown calls in the order the pipeline must make them
TeardownOrder ==
  <<"drain">> \o [i \in 1..MAX_FRAMES_IN_FLIGHT |-> "destroy_slot"]
    \o <<"unconfigure", "device_exit", "destroy_surface", "drop_adapter">>

IsPrefix(p, q) == Len(p) <= Len(q) /\ \A i \in DOMAIN p : p[i] = q[i]

C8_Step ==
  /\ (game_renderer'.surface = "destroyed" /\ game_renderer.surface # "destroyed")
       => game_renderer.surface = "unconfigured"
  /\ \A s \in Slots :
       (game_renderer'.frames_in_flight[s].res = "destroyed"
          /\ game_renderer.frames_in_flight[s].res # "destroyed")
         => game_renderer.device = "open"
  /\ (game_renderer'.adapter = "dropped" /\ game_renderer.adapter = "live"
          /\ rpc = "x_drop_adapter")
       => (game_renderer.surface = "destroyed" /\ game_renderer.device = "exited")

C9_Step ==
  /\ (rpc = "loop_top" /\ should_shutdown /\ rpc' # rpc)
       => (rpc' = "x_submit" /\ exitCalls' = 1)
  /\ exitCalls >= 1 => (framesStarted' = framesStarted /\ rpc' # "rl_enter")

C9_State ==
  /\ exitCalls <= 1
  /\ rpc = "done" => exitCalls = 1
  /\ Len(teardownLog) = Len(TeardownOrder) => rpc = "done"

\* C9: an iteration that finds the shutdown flag set calls exit, exit is called
\* at most once, the thread ends when exit has returned, and no render_loop
\* call begins once exit has been called.
C9_ShutdownOnce == []C9_State /\ [][C9_Step]_vars

\* The loop rendered, observed the flag, ran exit once and ended.
C9_Witness == rpc = "done" /\ exitCalls = 1 /\ framesDone >= 1 /\ mpc = "exited"

\* C10: at most one render_loop call begins after render::shutdown() stored the
\* flag; a call in progress is not cut short by the signal (when exit is called
\* every call begun has submitted, presented and returned); and the flag check
\* that follows the signal calls exit instead of render_loop.
C10_Cooperative ==
  /\ renderFlag => framesStarted <= sigFrames + 1
  /\ exitCalls >= 1 => (framesDone = framesStarted /\ Len(slotUse) = framesStarted)
  /\ (renderFlag /\ framesDone > sigFrames) =>
       rpc \in {"loop_top", "panicked"} \cup {ExitOrder[i] : i \in DOMAIN ExitOrder}

\* The signal came after the flag check: one more render_loop call began, ran
\* to its end, and the next iteration called exit.
C10_Witness ==
  /\ renderFlag
  /\ framesStarted = sigFrames + 1
  /\ framesDone = framesStarted
  /\ exitCalls = 1

\* The pipeline's state as the presentation thread's position shows it; a thread
\* that panicked stays in the state it was in.
Phase ==
  CASE rpc = "none" -> "Uninitialized"
    [] rpc = "done" -> "Destroyed"
    [] rpc = "panicked" -> IF exitCalls = 0 THEN "Running" ELSE "Draining"
    [] rpc \in {"loop_top", "rl_enter", "rl_acquire", "rl_record", "rl_submit",
                "rl_present"} -> "Running"
    [] OTHER -> "Draining"

Released(x) == x \in {"exited", "destroyed", "dropped"}

ChainIntact ==
  /\ game_renderer.instance = "live"
  /\ game_renderer.adapter = "live"
  /\ game_renderer.surface = "configured"
  /\ game_renderer.device = "open"

ChainReleased ==
  /\ Released(game_renderer.instance)
  /\ Released(game_renderer.adapter)
  /\ Released(game_renderer.surface)
  /\ Released(game_renderer.device)

\* C11: the pipeline goes Uninitialized -> Running -> Draining -> Destroyed;
\* it leaves Running only after the shutdown signal, the device / queue /
\* surface / adapter chain is intact while it is Running (also when render_loop
\* fails) and released when it is Destroyed, exit runs at most once and no
\* render_loop call is open once the pipeline is Destroyed.
C11_StateMachine ==
  /\ exitCalls <= 1
  /\ Phase \in {"Draining", "Destroyed"} => renderFlag
  /\ Phase = "Running" => ChainIntact
  /\ Phase = "Destroyed" => (ChainReleased /\ framesDone = framesStarted)

Allocated(x) == x \in {"live", "configured", "unconfigured", "open"}

\* C12: with zero adapters GameRenderer::init returns an error, and when it has
\* returned nothing it created is still allocated: no surface, no device (with
\* its queue), no instance, no slot, and no presentation thread exists.
C12_NoAdapterLeavesNothing ==
  initResult = "no_adapter" =>
    /\ InitReturn(initResult) = "Err"
    /\ ~Allocated(game_renderer.surface)
    /\ ~Allocated(game_renderer.device)
    /\ ~Allocated(game_renderer.instance)
    /\ ~Allocated(game_renderer.adapter)
    /\ \A s \in Slots : ~Allocated(game_renderer.frames_in_flight[s].res)
    /\ rpc = "none"

\* init failed for want of an adapter after it had created the instance and
\* the surface.
C12_Witness ==
  /\ initResult = "no_adapter"
  /\ game_renderer.instance = "dropped"
  /\ game_renderer.surface = "dropped"
  /\ game_renderer.device = "none"

\* The simulation loop is still being executed
SimRunning == spc = "loop" /\ Alive

\* C13: when GameRenderer::init fails, construction ends with an error outcome,
\* the presentation thread is never started, and the simulation loop keeps
\* running until sim::shutdown() has been signalled.
C13_InitFailureIsolated ==
  initResult \notin {"none", "ok"} =>
    /\ InitReturn(initResult) = "Err"
    /\ rpc = "none"
    /\ simFlag \/ SimRunning

\* C14: once the event loop has started its exit sequence, under fair scheduling
\* the presentation thread eventually finishes its teardown and ends, the
\* simulation loop ends and main's join on the simulation thread returns.
C14_ShutdownTerminates ==
  (mpc = "loop_exiting") ~>
    (rpc = "done" /\ teardownLog = TeardownOrder /\ spc = "done" /\ mpc = "exited")

\* What the exit sequence does reach: every thread ends and main returns, the
\* presentation thread either through exit or through a panic.
C14_ThreadsEnd ==
  (mpc = "loop_exiting") ~>
    (rpc \in {"done", "panicked"} /\ spc = "done" /\ mpc = "exited")

Frame(s) == game_renderer.frames_in_flight[s]

\* C15: a slot's fence has reached the slot's expected value exactly when all
\* work submitted on the slot has retired, so wait_and_clear never releases a
\* command buffer or view that the GPU is still executing.
C15_FenceTracksCompletion ==
  /\ \A s \in Slots :
       Frame(s).res = "live" => (FenceReached(s) <=> InFlight(s) = {})
  /\ ~busyRelease

\* C16: every slot that exit has destroyed had no work left on the GPU and no
\* unreleased view or command buffer when it was destroyed.
C16_DestroyAfterDrain ==
  /\ ~busyDestroy
  /\ \A s \in Slots :
       Frame(s).res = "destroyed" =>
         /\ InFlight(s) = {}
         /\ Frame(s).used_cmd_bufs = <<>>
         /\ Frame(s).used_views = <<>>

\* C17: a slot holds one view and one command buffer per render_loop call
\* recorded on it since its last wait_and_clear, and frames_recorded counts
\* those calls; after wait_and_clear all three are empty / 0.
C17_RetireBookkeeping ==
  \A s \in Slots :
    /\ Len(Frame(s).used_views) = Len(Frame(s).used_cmd_bufs)
    /\ Frame(s).frames_recorded = Len(Frame(s).used_cmd_bufs)

RECURSIVE SumLen(_)
SumLen(S) ==
  IF S = {} THEN 0
  ELSE LET s == CHOOSE x \in S : TRUE
       IN Len(Frame(s).used_cmd_bufs) + SumLen(S \ {s})

\* C18: every slot holds the resources of at most one frame that has not been
\* reclaimed, so at most N submitted frames have unreleased resources.
C18_LazyReclaimBounded ==
  /\ \A s \in Slots : Len(Frame(s).used_cmd_bufs) <= 1
  /\ SumLen(Slots) <= MAX_FRAMES_IN_FLIGHT

C19_Step ==
  /\ renderFlag' # renderFlag =>
       (simFlag' = simFlag /\ spc' = spc /\ simIters' = simIters)
  /\ simFlag' # simFlag =>
       (renderFlag' = renderFlag /\ rpc' = rpc /\ framesStarted' = framesStarted)

C19_State ==
  /\ spc = "done" => simFlag
  /\ Phase \in {"Draining", "Destroyed"} => renderFlag

\* C19: storing one loop's shutdown flag leaves the other flag and the other
\* loop as they are, the simulation loop leaves its loop only with the
\* simulation flag set and the presentation loop calls exit and breaks only
\* with the presentation flag set.
C19_SeparateFlags == []C19_State /\ [][C19_Step]_vars

\* The simulation loop was signalled and has ended while the presentation loop,
\* not signalled, is recording a further frame.
C19_Witness ==
  /\ simFlag
  /\ ~renderFlag
  /\ spc = "done"
  /\ rpc = "rl_submit"
  /\ framesDone >= 1

\* The presentation loop was signalled and has ended while the simulation loop,
\* not signalled, has iterated and is still in its loop.
C19_WitnessRenderFirst ==
  /\ renderFlag
  /\ ~simFlag
  /\ rpc = "done"
  /\ spc = "loop"
  /\ simIters >= 1

\* C20: sim::shutdown() is signalled only after the presentation thread has been
\* joined with its teardown complete, the window is alive while exit tears the
\* pipeline down, and main returns only after both loop threads have ended.
C20_ExitSequence ==
  /\ simFlag => (rpc = "done" /\ teardownLog = TeardownOrder)
  /\ rpc \in {ExitOrder[i] : i \in 1..(Len(ExitOrder) - 1)} => window = "alive"
  /\ mpc = "exited" => (spc = "done" /\ rpc \in {"done", "panicked"})

\* What holds of the exit sequence in every case: the simulation is signalled
\* only after the presentation thread has ended, by exit or by a panic.
C20_JoinedBeforeSimSignal ==
  /\ simFlag => rpc \in {"done", "panicked"}
  /\ rpc \in {ExitOrder[i] : i \in 1..(Len(ExitOrder) - 1)} => window = "alive"
  /\ mpc = "exited" => (spc = "done" /\ rpc \in {"done", "panicked"})

====
